---------------------------- MODULE Spec2Model ----------------------------
(***************************************************************************)
(* A model of binaryfoundry/nnsearch: the spatial hash and its Fibonacci   *)
(* folding, the counting sort and boundary table of main(), the            *)
(* approximate nearest-neighbour search NNApproxSearch, and the            *)
(* Worker / WorkerGroup thread protocol of Worker.hpp.                     *)
(*                                                                         *)
(* Lengths are measured in sub-cell units: one grid cell (BUCKET_SIZE) is  *)
(* SubCell units wide, so a coordinate q of the scaled vector p0 of        *)
(* hash() has integer part q \div SubCell and fractional part              *)
(* (q % SubCell) / SubCell.  32-bit unsigned values are pairs <<hi, lo>>   *)
(* of 16-bit halves, with all arithmetic modulo 2^32.                      *)
(***************************************************************************)
EXTENDS Integers, Naturals, Sequences, FiniteSets, TLC

(***************************************************************************)
(* Bounds of the model.                                                    *)
(***************************************************************************)
\* sub-cell resolution of a coordinate (units per grid cell)
SubCell == 4
\* largest value std::thread::hardware_concurrency() returns
MaxThreads == 2
\* number of WorkerGroup operations the harness issues
MaxOps == 3

(***************************************************************************)
(* Program parameters (Main.cpp), instantiated small.                      *)
(***************************************************************************)
NUM_POINTS == 4
NUM_BUCKETS == 8
\* 1 / BUCKET_SIZE: grid cells per unit of length
CellsPerUnit == 2
\* hash_bounds, per axis
hash_bounds == 1024
hash_prime_1 == 73856093
hash_prime_2 == 19349663
hash_prime_3 == 83492791

(***************************************************************************)
(* uint32_t arithmetic on <<hi, lo>> pairs of 16-bit halves.               *)
(***************************************************************************)
Half == 256 * 256

ToU32(n) == <<(n \div Half) % Half, n % Half>>

\* the value of a pair that fits a signed 32-bit integer
FromU32(a) == a[1] * Half + a[2]

RECURSIVE XorBits(_, _, _)
XorBits(a, b, n) ==
    IF n = 0 THEN 0
    ELSE ((a + b) % 2) + 2 * XorBits(a \div 2, b \div 2, n - 1)

Xor32(a, b) == <<XorBits(a[1], b[1], 16), XorBits(a[2], b[2], 16)>>

\* x * y for 16-bit x, y as <<carry into the high half, low half>>
Mul16(x, y) ==
    LET t == (x \div 256) * y
        u == (x % 256) * y
        s == (t % 256) * 256 + u
    IN  <<(t \div 256) + (s \div Half), s % Half>>

\* uint32_t multiplication: the product modulo 2^32
Mul32(a, b) ==
    LET ll == Mul16(a[2], b[2])
        hl == Mul16(a[1], b[2])[2]
        lh == Mul16(a[2], b[1])[2]
    IN  <<(ll[1] + hl + lh) % Half, ll[2]>>

RECURSIVE Pow2(_)
Pow2(n) == IF n = 0 THEN 1 ELSE 2 * Pow2(n - 1)

\* uint32_t a >> s, for 0 <= s < 32
Shr32(a, s) ==
    IF s >= 16 THEN <<0, a[1] \div Pow2(s - 16)>>
    ELSE <<a[1] \div Pow2(s),
           ((a[1] % Pow2(s)) * Pow2(16 - s) + (a[2] \div Pow2(s))) % Half>>

\* static_cast<uint32_t>(log2(n)) for n >= 1
RECURSIVE Log2(_)
Log2(n) == IF n <= 1 THEN 0 ELSE 1 + Log2(n \div 2)

(***************************************************************************)
(* General hash functions (Main.cpp 54-130).                               *)
(***************************************************************************)
\* fract2(x) < 0.5 for a scaled coordinate q >= 0 (x = q / SubCell)
fract2_lt_half(q) == 2 * (q % SubCell) < SubCell

\* p0 = (pos + hash_bounds) / BUCKET_SIZE, in sub-cell units
Scaled(pos) == [a \in 1..3 |-> pos[a] + hash_bounds * CellsPerUnit * SubCell]

\* static_cast<uint32_t> of a scaled coordinate: truncation
Trunc(q) == q \div SubCell

\* hash_prime_1 * x ^ hash_prime_2 * y ^ hash_prime_3 * z
hash_cell(c) ==
    Xor32(Xor32(Mul32(ToU32(hash_prime_1), ToU32(c[1])),
                Mul32(ToU32(hash_prime_2), ToU32(c[2]))),
          Mul32(ToU32(hash_prime_3), ToU32(c[3])))

\* the cell hash(pos) hashes
Cell(pos) == [a \in 1..3 |-> Trunc(Scaled(pos)[a])]

hash(pos) == hash_cell(Cell(pos))

\* the upper half of a cell steps one cell up instead of staying
OffsetCellUp(pos, offset) ==
    LET p0 == Scaled(pos)
        p1 == [a \in 1..3 |->
                 p0[a] + (IF fract2_lt_half(p0[a]) THEN -1 ELSE 1) * SubCell]
        p2 == [a \in 1..3 |-> p1[a] + offset[a] * SubCell]
    IN  [a \in 1..3 |-> Trunc(p2[a])]

\* the cell hash(pos, offset) hashes: p2 = p0 + (fract2 < 0.5 ? -1 : 0) + offset
OffsetCell(pos, offset) ==
    LET p0 == Scaled(pos)
        p1 == [a \in 1..3 |->
                 p0[a] + (IF fract2_lt_half(p0[a]) THEN -1 ELSE 0) * SubCell]
        p2 == [a \in 1..3 |-> p1[a] + offset[a] * SubCell]
    IN  [a \in 1..3 |-> Trunc(p2[a])]

hash_offset(pos, offset) == hash_cell(OffsetCell(pos, offset))

\* the last offset repeats the fourth
hash_bucket_offsets_repeated ==
    << <<0, 0, 0>>, <<1, 0, 0>>, <<0, 1, 0>>, <<1, 1, 0>>,
       <<0, 0, 1>>, <<1, 0, 1>>, <<0, 1, 1>>, <<1, 1, 0>> >>

hash_bucket_offsets ==
    << <<0, 0, 0>>, <<1, 0, 0>>, <<0, 1, 0>>, <<1, 1, 0>>,
       <<0, 0, 1>>, <<1, 0, 1>>, <<0, 1, 1>>, <<1, 1, 1>> >>

\* the shift taken from 31 bits instead of 32
fib_calc_bucket_shift_31(bucket_count) == 31 - Log2(bucket_count)

fib_calc_bucket_shift(bucket_count) == 32 - Log2(bucket_count)

fib_bucket_shift == fib_calc_bucket_shift(NUM_BUCKETS)

\* the golden-ratio multiplier 2654435769 = 0x9E3779B9
fib_multiplier == <<40503, 31161>>

fib_hash_to_index(h) ==
    LET hash2 == Xor32(h, Shr32(h, fib_bucket_shift))
    IN  FromU32(Shr32(Mul32(fib_multiplier, hash2), fib_bucket_shift))

fib_hash(pos) == fib_hash_to_index(hash(pos))

fib_hash_offset(pos, offset) == fib_hash_to_index(hash_offset(pos, offset))

(***************************************************************************)
(* Point cloud (Main.cpp 132-150).                                         *)
(***************************************************************************)
Indices == 0 .. NUM_POINTS - 1
Buckets == 0 .. NUM_BUCKETS - 1

\* struct Point, built as main() and NNApproxSearch build it
Point(position, bucket_id, found_nearest, nearest_index) ==
    [position |-> position, bucket_id |-> bucket_id,
     found_nearest |-> found_nearest, nearest_index |-> nearest_index]

\* a zero-initialised element of the global arrays
ZeroPoint == Point(<<0, 0, 0>>, 0, FALSE, 0)

\* a point of the cloud as main() creates it: { position, fib_hash(position) }
NewPoint(position) == Point(position, fib_hash(position), FALSE, 0)

\* positions the cloud is drawn from, in sub-cell units of length
Positions ==
    {<<0, 0, 0>>, <<1, 0, 0>>, <<3, 0, 0>>, <<4, 0, 0>>, <<7, 3, 0>>,
     <<40, 40, 40>>}

\* the positions of the runs that interleave worker threads
FewPositions == {<<0, 0, 0>>, <<1, 0, 0>>, <<40, 40, 40>>}

\* positions for the hash functions: lower and upper halves of a cell on
\* every axis, the exact middle of a cell, and the far corner of the range
\* of next_rand()
HashPositions ==
    {<<0, 0, 0>>, <<3, 3, 3>>, <<5, 2, 7>>, <<2, 7, 1>>,
     <<7999, 7998, 7997>>}

(***************************************************************************)
(* The counting sort and the boundary table of main() (Main.cpp 186-219).  *)
(***************************************************************************)
\* lines 187-194: std::fill(0), then one increment per input point
RECURSIVE CountLoop(_, _, _)
CountLoop(input, counts, i) ==
    IF i = NUM_POINTS THEN counts
    ELSE CountLoop(input,
                   [counts EXCEPT ![input[i].bucket_id] = @ + 1], i + 1)

CountPass(input) == CountLoop(input, [b \in Buckets |-> 0], 0)

\* lines 196-199: the running prefix sum
RECURSIVE PrefixLoop(_, _)
PrefixLoop(counts, i) ==
    IF i >= NUM_BUCKETS THEN counts
    ELSE PrefixLoop([counts EXCEPT ![i] = @ + counts[i - 1]], i + 1)

\* the prefix sum started one bucket late
PrefixPassFromTwo(counts) == PrefixLoop(counts, 2)

PrefixPass(counts) == PrefixLoop(counts, 1)

\* lines 201-205: decrement the bucket's slot, then place the point there
RECURSIVE PlaceLoop(_, _, _, _)
PlaceLoop(input, counts, sorted, i) ==
    IF i = NUM_POINTS THEN [hash |-> counts, sorted |-> sorted]
    ELSE LET b == input[i].bucket_id
             slot == counts[b] - 1
         IN  PlaceLoop(input, [counts EXCEPT ![b] = slot],
                       [sorted EXCEPT ![slot] = input[i]], i + 1)

\* the slots are decremented in a copy: buckets_hash keeps the prefix sums
PlacePassOnCopy(input, counts, sorted) ==
    [hash |-> counts, sorted |-> PlaceLoop(input, counts, sorted, 0).sorted]

PlacePass(input, counts, sorted) == PlaceLoop(input, counts, sorted, 0)

\* lines 208-219: the first index of each bucket's run, -1 for an empty bucket
RECURSIVE BoundaryLoop(_, _, _, _)
BoundaryLoop(sorted, boundary, current, i) ==
    IF i = NUM_POINTS THEN boundary
    ELSE LET b == sorted[i].bucket_id
         IN  IF b > current \/ current = NUM_BUCKETS + 1
             THEN BoundaryLoop(sorted, [boundary EXCEPT ![b] = i], b, i + 1)
             ELSE BoundaryLoop(sorted, boundary, current, i + 1)

\* current initialised to 0 instead of the out-of-range NUM_BUCKETS + 1
BoundaryPassFromZero(sorted) ==
    BoundaryLoop(sorted, [b \in Buckets |-> -1], 0, 0)

BoundaryPass(sorted) ==
    BoundaryLoop(sorted, [b \in Buckets |-> -1], NUM_BUCKETS + 1, 0)

(***************************************************************************)
(* NNApproxSearch (Main.cpp 275-334).                                      *)
(***************************************************************************)
\* glm::length(b1.position - b0.position), as its square
Dist2(p, q) ==
    (p[1] - q[1]) * (p[1] - q[1]) + (p[2] - q[2]) * (p[2] - q[2])
      + (p[3] - q[3]) * (p[3] - q[3])

\* std::numeric_limits<float>::max(): above every distance of the domain
FLT_MAX ==
    LET side == 1000 * CellsPerUnit * SubCell IN 3 * side * side + 1

\* the scan goes on to the end of the array: the loop condition tests the
\* index only, not the bucket id
RECURSIVE ScanLoopToEnd(_, _, _, _, _, _)
ScanLoopToEnd(sorted, i, bucket_index, k, acc, reads) ==
    LET b1 == sorted[k]
        current_bucket_id == b1.bucket_id
        d == Dist2(b1.position, sorted[i].position)
        acc1 == IF i /= k /\ current_bucket_id = bucket_index
                   /\ d < acc.nearest_distance
                THEN [nearest_distance |-> d, nearest_index |-> k,
                      nearest_found |-> TRUE]
                ELSE acc
        reads1 == reads \cup {k}
    IN  IF k + 1 < NUM_POINTS
        THEN ScanLoopToEnd(sorted, i, bucket_index, k + 1, acc1, reads1)
        ELSE [acc |-> acc1, reads |-> reads1]

\* lines 305-323: the do-while scan of one candidate bucket from index k
RECURSIVE ScanLoop(_, _, _, _, _, _)
ScanLoop(sorted, i, bucket_index, k, acc, reads) ==
    LET b1 == sorted[k]
        current_bucket_id == b1.bucket_id
        d == Dist2(b1.position, sorted[i].position)
        acc1 == IF i /= k /\ current_bucket_id = bucket_index
                   /\ d < acc.nearest_distance
                THEN [nearest_distance |-> d, nearest_index |-> k,
                      nearest_found |-> TRUE]
                ELSE acc
        reads1 == reads \cup {k}
    IN  IF current_bucket_id = bucket_index /\ k + 1 < NUM_POINTS
        THEN ScanLoop(sorted, i, bucket_index, k + 1, acc1, reads1)
        ELSE [acc |-> acc1, reads |-> reads1]

\* lines 287-324: the loop over the 8 neighbour buckets
RECURSIVE BucketLoop(_, _, _, _, _, _)
BucketLoop(sorted, boundary, i, j, acc, reads) ==
    IF j > 8 THEN [acc |-> acc, reads |-> reads]
    ELSE LET bucket_index ==
                 fib_hash_offset(sorted[i].position, hash_bucket_offsets[j])
             k == boundary[bucket_index]
         IN  IF k = -1
             THEN BucketLoop(sorted, boundary, i, j + 1, acc, reads)
             ELSE LET r == ScanLoop(sorted, i, bucket_index, k, acc, reads)
                  IN  BucketLoop(sorted, boundary, i, j + 1, r.acc, r.reads)

\* nearest_distance initialised to 0 instead of the largest float
SearchScanFromZero(sorted, boundary, i) ==
    BucketLoop(sorted, boundary, i, 1,
               [nearest_distance |-> 0, nearest_index |-> 0,
                nearest_found |-> FALSE], {})

SearchScan(sorted, boundary, i) ==
    BucketLoop(sorted, boundary, i, 1,
               [nearest_distance |-> FLT_MAX, nearest_index |-> 0,
                nearest_found |-> FALSE], {})

\* the element is built as main() builds the cloud, from the position and
\* the search outcome, leaving bucket_id to its default
SearchPointNoBucket(sorted, boundary, i) ==
    LET r == SearchScan(sorted, boundary, i).acc
    IN  Point(sorted[i].position, 0, r.nearest_found, r.nearest_index)

\* lines 280-332: the element one iteration of the outer loop writes
SearchPoint(sorted, boundary, i) ==
    LET r == SearchScan(sorted, boundary, i).acc
    IN  Point(sorted[i].position, sorted[i].bucket_id,
              r.nearest_found, r.nearest_index)

\* the result array NNApproxSearch(0, 1) leaves: every index, in order
RECURSIVE SequentialLoop(_, _, _, _)
SequentialLoop(sorted, boundary, final, i) ==
    IF i >= NUM_POINTS THEN final
    ELSE SequentialLoop(sorted, boundary,
                        [final EXCEPT ![i] = SearchPoint(sorted, boundary, i)],
                        i + 1)

(***************************************************************************)
(* State.                                                                  *)
(***************************************************************************)
VARIABLES
    \* Main.cpp: the global arrays
    point_cloud_input, point_cloud_sorted, point_cloud_final,
    buckets_hash, buckets_boundary,
    \* main(): the build (#ifdef CONCURRENT), hardware_concurrency(), the
    \* position of the main thread, and the index i of its own NNApproxSearch
    CONCURRENT, threads, mpc, mi,
    \* WorkerGroup: the size of workers_
    created,
    \* Worker n: its atomics, its mutex, the position of its thread in
    \* thread_loop, and the index i of its job NNApproxSearch(n, threads)
    running, executing, mutex, wpc, ji,
    \* the calling thread inside a WorkerGroup method: the method, the
    \* worker its loop is at, and the position inside the Worker method
    cop, cw, cpc,
    \* history: job invocations and thread joins per worker, workers whose
    \* Terminate() has returned, the writers of each result element in
    \* order, Resolve() calls returned, operations issued by the harness,
    \* and whether it has issued Resolve() only
    jobs, joins, stopped, wrote, resolves, ops, pure

arrays == <<point_cloud_input, point_cloud_sorted, point_cloud_final,
            buckets_hash, buckets_boundary>>
mainv == <<CONCURRENT, threads, mpc, mi, created>>
workerv == <<running, executing, mutex, wpc, ji>>
callerv == <<cop, cw, cpc>>
history == <<jobs, joins, stopped, wrote, resolves, ops, pure>>
vars == <<arrays, mainv, workerv, callerv, history>>

AllWorkers == 0 .. MaxThreads - 1

(***************************************************************************)
(* Initial states.                                                         *)
(***************************************************************************)
\* lines 157-167: the cloud; the global arrays are zero-initialised
InitCloud(positions) ==
    /\ point_cloud_input \in
         {[i \in Indices |-> NewPoint(f[i])] : f \in [Indices -> positions]}
    /\ point_cloud_sorted = [i \in Indices |-> ZeroPoint]
    /\ point_cloud_final = [i \in Indices |-> ZeroPoint]
    /\ buckets_hash = [b \in Buckets |-> 0]
    /\ buckets_boundary = [b \in Buckets |-> 0]

InitWorkers ==
    /\ created = 0
    /\ running = [n \in AllWorkers |-> TRUE]
    /\ executing = [n \in AllWorkers |-> FALSE]
    /\ mutex = [n \in AllWorkers |-> "free"]
    /\ wpc = [n \in AllWorkers |-> "unborn"]
    /\ ji = [n \in AllWorkers |-> 0]
    /\ cop = "none" /\ cw = 0 /\ cpc = "idle"

InitHistory ==
    /\ jobs = [n \in AllWorkers |-> 0]
    /\ joins = [n \in AllWorkers |-> 0]
    /\ stopped = [n \in AllWorkers |-> FALSE]
    /\ wrote = [i \in Indices |-> <<>>]
    /\ resolves = 0 /\ ops = 0 /\ pure = TRUE

(***************************************************************************)
(* main(): the sort phases (Main.cpp 186-219).                             *)
(***************************************************************************)
Count ==
    /\ mpc = "count"
    /\ buckets_hash' = CountPass(point_cloud_input)
    /\ mpc' = "prefix"
    /\ UNCHANGED <<point_cloud_input, point_cloud_sorted, point_cloud_final,
                   buckets_boundary, CONCURRENT, threads, mi, created,
                   workerv, callerv, history>>

Prefix ==
    /\ mpc = "prefix"
    /\ buckets_hash' = PrefixPass(buckets_hash)
    /\ mpc' = "place"
    /\ UNCHANGED <<point_cloud_input, point_cloud_sorted, point_cloud_final,
                   buckets_boundary, CONCURRENT, threads, mi, created,
                   workerv, callerv, history>>

Place ==
    /\ mpc = "place"
    /\ LET r == PlacePass(point_cloud_input, buckets_hash, point_cloud_sorted)
       IN  /\ buckets_hash' = r.hash
           /\ point_cloud_sorted' = r.sorted
    /\ mpc' = "boundary"
    /\ UNCHANGED <<point_cloud_input, point_cloud_final, buckets_boundary,
                   CONCURRENT, threads, mi, created,
                   workerv, callerv, history>>

Boundary ==
    /\ mpc = "boundary"
    /\ buckets_boundary' = BoundaryPass(point_cloud_sorted)
    /\ mpc' = IF CONCURRENT THEN "resolve" ELSE "search"
    /\ UNCHANGED <<point_cloud_input, point_cloud_sorted, point_cloud_final,
                   buckets_hash, CONCURRENT, threads, mi, created,
                   workerv, callerv, history>>

(***************************************************************************)
(* main() without CONCURRENT: NNApproxSearch(0, 1) on the main thread      *)
(* (Main.cpp 231, 275-334), one iteration of its outer loop per step.      *)
(***************************************************************************)
MainSearchStep ==
    /\ mpc = "search"
    /\ mi < NUM_POINTS
    /\ point_cloud_final' =
         [point_cloud_final EXCEPT
            ![mi] = SearchPoint(point_cloud_sorted, buckets_boundary, mi)]
    /\ wrote' = [wrote EXCEPT ![mi] = Append(@, "main")]
    /\ mi' = mi + 1
    /\ UNCHANGED <<point_cloud_input, point_cloud_sorted, buckets_hash,
                   buckets_boundary, CONCURRENT, threads, mpc, created,
                   workerv, callerv, jobs, joins, stopped, resolves, ops,
                   pure>>

MainSearchReturn ==
    /\ mpc = "search"
    /\ mi >= NUM_POINTS
    /\ mpc' = "reduce"
    /\ UNCHANGED <<arrays, CONCURRENT, threads, mi, created,
                   workerv, callerv, history>>

(***************************************************************************)
(* Worker::thread_loop (Worker.hpp 69-87).  A step is one access to an     *)
(* atomic or to a condition variable.  Taking the mutex is one step with   *)
(* the access that follows it, and releasing it one step with the access   *)
(* that precedes it: no step of another thread is enabled or disabled by   *)
(* the mutex being held, except the steps that take it.                    *)
(***************************************************************************)
\* line 73, or the re-acquisition inside condition_.wait after a wake-up;
\* then line 75: the wait predicate reads executing
WLock(n) ==
    /\ wpc[n] = "lock"
    /\ mutex[n] = "free"
    /\ mutex' = [mutex EXCEPT ![n] = "worker"]
    /\ wpc' = [wpc EXCEPT ![n] = IF executing[n] THEN "if_r" ELSE "wait_r"]
    /\ UNCHANGED <<arrays, mainv, running, executing, ji, callerv, history>>

\* line 75: the wait predicate reads running
WWaitRunning(n) ==
    /\ wpc[n] = "wait_r"
    /\ wpc' = [wpc EXCEPT ![n] = IF ~running[n] THEN "if_r" ELSE "block"]
    /\ UNCHANGED <<arrays, mainv, running, executing, mutex, ji, callerv,
                   history>>

\* line 74: the predicate was false; wait releases the mutex and blocks
WBlock(n) ==
    /\ wpc[n] = "block"
    /\ mutex' = [mutex EXCEPT ![n] = "free"]
    /\ wpc' = [wpc EXCEPT ![n] = "waiting"]
    /\ UNCHANGED <<arrays, mainv, running, executing, ji, callerv, history>>

\* a spurious wake-up of condition_.wait
WSpurious(n) ==
    /\ wpc[n] = "waiting"
    /\ wpc' = [wpc EXCEPT ![n] = "lock"]
    /\ UNCHANGED <<arrays, mainv, running, executing, mutex, ji, callerv,
                   history>>

\* line 78: running && executing reads running
WIfRunning(n) ==
    /\ wpc[n] = "if_r"
    /\ wpc' = [wpc EXCEPT ![n] = IF running[n] THEN "if_e" ELSE "notify"]
    /\ UNCHANGED <<arrays, mainv, running, executing, mutex, ji, callerv,
                   history>>

\* line 78 reads executing; line 80 enters job(): NNApproxSearch(n, threads)
WIfExecuting(n) ==
    /\ wpc[n] = "if_e"
    /\ IF executing[n]
       THEN /\ wpc' = [wpc EXCEPT ![n] = "job"]
            /\ ji' = [ji EXCEPT ![n] = n]
            /\ jobs' = [jobs EXCEPT ![n] = @ + 1]
       ELSE /\ wpc' = [wpc EXCEPT ![n] = "notify"]
            /\ UNCHANGED <<ji, jobs>>
    /\ UNCHANGED <<arrays, mainv, running, executing, mutex, callerv,
                   joins, stopped, wrote, resolves, ops, pure>>

\* every job strides by one more than the number of workers
JobStrideOffByOne(n) == threads + 1

\* every job strides by one, as the sequential search does
JobStrideOne(n) == 1

\* the stride of worker n's job: the captured threads (Main.cpp 178)
JobStride(n) == threads

\* Main.cpp 278-333: one iteration of the job's outer loop
WJobStep(n) ==
    /\ wpc[n] = "job"
    /\ ji[n] < NUM_POINTS
    /\ point_cloud_final' =
         [point_cloud_final EXCEPT
            ![ji[n]] = SearchPoint(point_cloud_sorted, buckets_boundary, ji[n])]
    /\ wrote' = [wrote EXCEPT ![ji[n]] = Append(@, n)]
    /\ ji' = [ji EXCEPT ![n] = @ + JobStride(n)]
    /\ UNCHANGED <<point_cloud_input, point_cloud_sorted, buckets_hash,
                   buckets_boundary, mainv, running, executing, mutex, wpc,
                   callerv, jobs, joins, stopped, resolves, ops, pure>>

\* Main.cpp 278: the loop ends and job() returns
WJobReturn(n) ==
    /\ wpc[n] = "job"
    /\ ji[n] >= NUM_POINTS
    /\ wpc' = [wpc EXCEPT ![n] = "notify"]
    /\ UNCHANGED <<arrays, mainv, running, executing, mutex, ji, callerv,
                   history>>

\* line 83: condition_join_.notify_one() wakes a caller blocked in Join
WNotifyJoin(n) ==
    /\ wpc[n] = "notify"
    /\ wpc' = [wpc EXCEPT ![n] = "clear"]
    /\ cpc' = IF cpc = "j_waiting" /\ cw = n THEN "j_lock" ELSE cpc
    /\ UNCHANGED <<arrays, mainv, running, executing, mutex, ji, cop, cw,
                   history>>

\* line 84: executing = false; line 85: the lock goes out of scope
WClear(n) ==
    /\ wpc[n] = "clear"
    /\ executing' = [executing EXCEPT ![n] = FALSE]
    /\ mutex' = [mutex EXCEPT ![n] = "free"]
    /\ wpc' = [wpc EXCEPT ![n] = "while"]
    /\ UNCHANGED <<arrays, mainv, running, ji, callerv, history>>

\* line 86: while (running)
WWhile(n) ==
    /\ wpc[n] = "while"
    /\ wpc' = [wpc EXCEPT ![n] = IF running[n] THEN "lock" ELSE "exited"]
    /\ UNCHANGED <<arrays, mainv, running, executing, mutex, ji, callerv,
                   history>>

WorkerStep(n) ==
    \/ WLock(n) \/ WWaitRunning(n) \/ WBlock(n)
    \/ WIfRunning(n) \/ WIfExecuting(n) \/ WJobStep(n) \/ WJobReturn(n)
    \/ WNotifyJoin(n) \/ WClear(n) \/ WWhile(n)

(***************************************************************************)
(* WorkerGroup (Worker.hpp 100-138): every method is a loop over workers_  *)
(* calling one Worker method; Resolve() is the Notify() loop followed by   *)
(* the Join() loop; ~WorkerGroup is Terminate() followed by the            *)
(* destruction of workers_, that is ~Worker for every worker.              *)
(***************************************************************************)
FirstPc(op) ==
    CASE op \in {"Notify", "Resolve"} -> "n_set"
      [] op = "Join" -> "j_if"
      [] OTHER -> "t_if"

\* a WorkerGroup method is called
StartOp(op) ==
    IF created = 0
    THEN /\ cop' = "none" /\ cw' = 0
         /\ cpc' = IF op = "Destroy" THEN "gone" ELSE "idle"
         /\ resolves' = IF op = "Resolve" THEN resolves + 1 ELSE resolves
    ELSE /\ cop' = op /\ cw' = 0 /\ cpc' = FirstPc(op)
         /\ resolves' = resolves

\* the Worker method entered at `first` returns to the loop of the group
Return(first) ==
    IF cw + 1 < created
    THEN /\ cw' = cw + 1 /\ cpc' = first
         /\ UNCHANGED <<cop, resolves>>
    ELSE /\ cw' = 0
         /\ CASE cop = "Resolve" /\ first = "n_set" ->
                   cpc' = "j_if" /\ UNCHANGED <<cop, resolves>>
              [] cop = "Resolve" /\ first = "j_if" ->
                   cpc' = "idle" /\ cop' = "none" /\ resolves' = resolves + 1
              [] cop = "Destroy" ->
                   cpc' = "t_if" /\ cop' = "DestroyWorkers"
                     /\ UNCHANGED resolves
              [] cop = "DestroyWorkers" ->
                   cpc' = "gone" /\ cop' = "none" /\ UNCHANGED resolves
              [] OTHER ->
                   cpc' = "idle" /\ cop' = "none" /\ UNCHANGED resolves

(***************************************************************************)
(* Worker::Notify (Worker.hpp 50-54).                                      *)
(***************************************************************************)
\* line 52: executing = true
NSet ==
    /\ cpc = "n_set"
    /\ executing' = [executing EXCEPT ![cw] = TRUE]
    /\ cpc' = "n_notify"
    /\ UNCHANGED <<arrays, mainv, running, mutex, wpc, ji, cop, cw, history>>

\* condition_.notify_one(): wakes the worker if it is blocked in wait
NotifyOne(n) ==
    [wpc EXCEPT ![n] = IF @ = "waiting" THEN "lock" ELSE @]

\* line 53
NNotify ==
    /\ cpc = "n_notify"
    /\ wpc' = NotifyOne(cw)
    /\ Return("n_set")
    /\ UNCHANGED <<arrays, mainv, running, executing, mutex, ji,
                   jobs, joins, stopped, wrote, ops, pure>>

(***************************************************************************)
(* Worker::Join (Worker.hpp 56-66).  The worker reads and writes its       *)
(* atomics and notifies condition_join_ only while it holds the mutex,     *)
(* except for the read of line 86, so what Join does under the mutex is    *)
(* one step.                                                               *)
(***************************************************************************)
\* the test of line 58 inverted: Join waits only when nothing is pending
JIfInverted ==
    /\ cpc = "j_if"
    /\ IF ~executing[cw]
       THEN cpc' = "j_lock" /\ UNCHANGED <<cop, cw, resolves>>
       ELSE Return("j_if")
    /\ UNCHANGED <<arrays, mainv, workerv,
                   jobs, joins, stopped, wrote, ops, pure>>

\* line 58: if (executing)
JIf ==
    /\ cpc = "j_if"
    /\ IF executing[cw]
       THEN cpc' = "j_lock" /\ UNCHANGED <<cop, cw, resolves>>
       ELSE Return("j_if")
    /\ UNCHANGED <<arrays, mainv, workerv,
                   jobs, joins, stopped, wrote, ops, pure>>

\* the predicate of thread_loop's wait, copied into Join
JoinPredicateOfLoop(n) == executing[n] \/ ~running[n]

\* line 62: the predicate of condition_join_.wait
JoinPredicate(n) == ~executing[n] \/ ~running[n]

\* line 60, or the re-acquisition inside condition_join_.wait after a
\* wake-up; then the predicate: if it is false wait releases the mutex and
\* blocks, else line 64 (executing = false) and Join returns
JLock ==
    /\ cpc = "j_lock"
    /\ mutex[cw] = "free"
    /\ IF JoinPredicate(cw)
       THEN /\ executing' = [executing EXCEPT ![cw] = FALSE]
            /\ Return("j_if")
       ELSE /\ cpc' = "j_waiting"
            /\ UNCHANGED <<executing, cop, cw, resolves>>
    /\ UNCHANGED <<arrays, mainv, running, mutex, wpc, ji,
                   jobs, joins, stopped, wrote, ops, pure>>

\* a spurious wake-up of condition_join_.wait
JSpurious ==
    /\ cpc = "j_waiting"
    /\ cpc' = "j_lock"
    /\ UNCHANGED <<arrays, mainv, workerv, cop, cw, history>>

(***************************************************************************)
(* Worker::Terminate (Worker.hpp 40-48), also called by ~Worker (35-38).   *)
(***************************************************************************)
\* Terminate without the test of line 42
TIfUnguarded ==
    /\ cpc = "t_if"
    /\ running' = [running EXCEPT ![cw] = FALSE]
    /\ cpc' = "t_notify"
    /\ UNCHANGED <<cop, cw, resolves, stopped>>
    /\ UNCHANGED <<arrays, mainv, executing, mutex, wpc, ji,
                   jobs, joins, wrote, ops, pure>>

\* line 42: if (running); line 44: running = false
TIf ==
    /\ cpc = "t_if"
    /\ IF running[cw]
       THEN /\ running' = [running EXCEPT ![cw] = FALSE]
            /\ cpc' = "t_notify"
            /\ UNCHANGED <<cop, cw, resolves, stopped>>
       ELSE /\ Return("t_if")
            /\ stopped' = [stopped EXCEPT ![cw] = TRUE]
            /\ UNCHANGED running
    /\ UNCHANGED <<arrays, mainv, executing, mutex, wpc, ji,
                   jobs, joins, wrote, ops, pure>>

\* line 45: condition_.notify_one()
TNotify ==
    /\ cpc = "t_notify"
    /\ wpc' = NotifyOne(cw)
    /\ cpc' = "t_join"
    /\ UNCHANGED <<arrays, mainv, running, executing, mutex, ji, cop, cw,
                   history>>

\* Terminate returns without waiting for the thread (detach for join)
TJoinDetached ==
    /\ cpc = "t_join"
    /\ joins' = [joins EXCEPT ![cw] = @ + 1]
    /\ stopped' = [stopped EXCEPT ![cw] = TRUE]
    /\ Return("t_if")
    /\ UNCHANGED <<arrays, mainv, workerv, jobs, wrote, ops, pure>>

\* line 46: thread_->join() returns once thread_loop has returned
TJoin ==
    /\ cpc = "t_join"
    /\ wpc[cw] = "exited"
    /\ joins' = [joins EXCEPT ![cw] = @ + 1]
    /\ stopped' = [stopped EXCEPT ![cw] = TRUE]
    /\ Return("t_if")
    /\ UNCHANGED <<arrays, mainv, workerv, jobs, wrote, ops, pure>>

CallerStep ==
    \/ NSet \/ NNotify
    \/ JIf \/ JLock
    \/ TIf \/ TNotify \/ TJoin

(***************************************************************************)
(* main() with CONCURRENT (Main.cpp 170-181, 229, 273).                    *)
(***************************************************************************)
\* the constructor initialises executing to true
CreateWorkerExecuting ==
    /\ mpc = "create"
    /\ created < threads
    /\ running' = [running EXCEPT ![created] = TRUE]
    /\ executing' = [executing EXCEPT ![created] = TRUE]
    /\ wpc' = [wpc EXCEPT ![created] = "lock"]
    /\ created' = created + 1
    /\ UNCHANGED <<arrays, CONCURRENT, threads, mpc, mi, mutex, ji, callerv,
                   history>>

\* lines 174-180: AddWorker(make_unique<Worker>(...)); the constructor
\* (Worker.hpp 25-33) sets the atomics and starts the thread
CreateWorker ==
    /\ mpc = "create"
    /\ created < threads
    /\ running' = [running EXCEPT ![created] = TRUE]
    /\ executing' = [executing EXCEPT ![created] = FALSE]
    /\ wpc' = [wpc EXCEPT ![created] = "lock"]
    /\ created' = created + 1
    /\ UNCHANGED <<arrays, CONCURRENT, threads, mpc, mi, mutex, ji, callerv,
                   history>>

\* line 174: n < threads fails
CreateDone ==
    /\ mpc = "create"
    /\ created >= threads
    /\ mpc' = "count"
    /\ UNCHANGED <<arrays, CONCURRENT, threads, mi, created, workerv,
                   callerv, history>>

\* line 229: search_workers.Resolve() is called
CallResolve ==
    /\ mpc = "resolve"
    /\ cpc = "idle"
    /\ StartOp("Resolve")
    /\ mpc' = "resolving"
    /\ UNCHANGED <<arrays, CONCURRENT, threads, mi, created, workerv,
                   jobs, joins, stopped, wrote, ops, pure>>

\* line 229: Resolve() has returned
ResolveReturned ==
    /\ mpc = "resolving"
    /\ cpc = "idle"
    /\ mpc' = "reduce"
    /\ UNCHANGED <<arrays, CONCURRENT, threads, mi, created, workerv,
                   callerv, history>>

\* lines 237-272: the reduction and the report only read the result array
Reduce ==
    /\ mpc = "reduce"
    /\ mpc' = "exit"
    /\ UNCHANGED <<arrays, CONCURRENT, threads, mi, created, workerv,
                   callerv, history>>

\* line 273: main returns; with CONCURRENT, search_workers is destroyed
Exit ==
    /\ mpc = "exit"
    /\ cpc = "idle"
    /\ IF CONCURRENT
       THEN StartOp("Destroy")
       ELSE cpc' = "gone" /\ UNCHANGED <<cop, cw, resolves>>
    /\ mpc' = "done"
    /\ UNCHANGED <<arrays, CONCURRENT, threads, mi, created, workerv,
                   jobs, joins, stopped, wrote, ops, pure>>

SortStep == Count \/ Prefix \/ Place \/ Boundary

(***************************************************************************)
(* A harness on a WorkerGroup whose jobs are those of main(): it calls     *)
(* the public methods in any order, MaxOps times, one call at a time.      *)
(***************************************************************************)
GroupOps == {"Resolve", "Notify", "Join", "Terminate", "Destroy"}

Drive(op) ==
    /\ mpc = "drive"
    /\ cpc = "idle"
    /\ ops < MaxOps
    /\ StartOp(op)
    /\ ops' = ops + 1
    /\ pure' = (pure /\ op = "Resolve")
    /\ UNCHANGED <<arrays, mainv, workerv, jobs, joins, stopped, wrote>>

\* the cloud of the harness: points along the x axis
HarnessInput == [i \in Indices |-> NewPoint(<<(3 * i) % 8, 0, 0>>)]

(***************************************************************************)
(* Specifications.                                                         *)
(***************************************************************************)
\* main() built with CONCURRENT
Init ==
    /\ InitCloud(FewPositions)
    /\ CONCURRENT = TRUE
    /\ threads \in 0 .. MaxThreads
    /\ mpc = "create" /\ mi = 0
    /\ InitWorkers
    /\ InitHistory

Next ==
    \/ CreateWorker \/ CreateDone
    \/ SortStep
    \/ CallResolve \/ ResolveReturned \/ Reduce \/ Exit
    \/ CallerStep
    \/ \E n \in AllWorkers : WorkerStep(n)
    \/ \E n \in AllWorkers : WSpurious(n)
    \/ JSpurious

Spec == Init /\ [][Next]_vars

\* main() built without CONCURRENT
InitSeq ==
    /\ InitCloud(Positions)
    /\ CONCURRENT = FALSE
    /\ threads = 0
    /\ mpc = "count" /\ mi = 0
    /\ InitWorkers
    /\ InitHistory

NextSeq ==
    \/ SortStep
    \/ MainSearchStep \/ MainSearchReturn
    \/ Reduce \/ Exit

SpecSeq == InitSeq /\ [][NextSeq]_vars

\* main() built without CONCURRENT, on the positions for the hash functions
InitHash ==
    /\ InitCloud(HashPositions)
    /\ CONCURRENT = FALSE
    /\ threads = 0
    /\ mpc = "count" /\ mi = 0
    /\ InitWorkers
    /\ InitHistory

SpecHash == InitHash /\ [][NextSeq]_vars

\* the harness, started where main() is when the sort is done and every
\* worker has been constructed
InitGroup ==
    /\ point_cloud_input = HarnessInput
    /\ LET counts == PrefixPass(CountPass(HarnessInput))
           r == PlacePass(HarnessInput, counts, [i \in Indices |-> ZeroPoint])
       IN  /\ buckets_hash = r.hash
           /\ point_cloud_sorted = r.sorted
           /\ buckets_boundary = BoundaryPass(r.sorted)
    /\ point_cloud_final = [i \in Indices |-> ZeroPoint]
    /\ CONCURRENT = TRUE
    /\ threads \in 1 .. MaxThreads
    /\ created = threads
    /\ mpc = "drive" /\ mi = 0
    /\ running = [n \in AllWorkers |-> TRUE]
    /\ executing = [n \in AllWorkers |-> FALSE]
    /\ mutex = [n \in AllWorkers |-> "free"]
    /\ wpc = [n \in AllWorkers |-> IF n < threads THEN "lock" ELSE "unborn"]
    /\ ji = [n \in AllWorkers |-> 0]
    /\ cop = "none" /\ cw = 0 /\ cpc = "idle"
    /\ InitHistory

NextGroup ==
    \/ \E op \in GroupOps : Drive(op)
    \/ CallerStep
    \/ \E n \in AllWorkers : WorkerStep(n)
    \/ \E n \in AllWorkers : WSpurious(n)
    \/ JSpurious

SpecGroup == InitGroup /\ [][NextGroup]_vars

(***************************************************************************)
(* Properties.                                                             *)
(***************************************************************************)
Workers == 0 .. threads - 1

\* Resolve() has returned in main()
Resolved == mpc \in {"reduce", "exit", "done"}

\* main() is at the statement that follows Resolve()
JustResolved == mpc = "reduce"

\* the search phase has written the result array, in either build
Searched == mpc \in {"reduce", "exit", "done"}

\* C1: in a history of Resolve() calls only, whenever the caller is outside
\* Resolve() every worker has run its job once per Resolve() returned and
\* is not inside its job; while a Resolve() is in progress a worker has
\* run its job for that round at most once.
C1_ResolveRunsEachJobOnce ==
    pure =>
      \A n \in Workers :
        /\ cpc = "idle" => (jobs[n] = resolves /\ wpc[n] /= "job")
        /\ jobs[n] \in {resolves, resolves + 1}

\* two successive Resolve() calls on two workers have returned
C1_Witness ==
    /\ pure /\ cpc = "idle" /\ resolves = 2 /\ threads = 2
    /\ \A n \in Workers : jobs[n] = 2

\* worker n's thread can take a step of thread_loop: it exists, it has
\* not returned, it is not blocked in condition_.wait, and it is not
\* waiting for a mutex that is held
WorkerCanStep(n) ==
    /\ wpc[n] \notin {"unborn", "waiting", "exited"}
    /\ wpc[n] = "lock" => mutex[n] = "free"

\* the calling thread can take a step of the method it is in: it is not
\* blocked in condition_join_.wait, in thread_->join() or on a held mutex
CallerCanStep ==
    /\ cpc \notin {"idle", "gone", "j_waiting"}
    /\ cpc = "j_lock" => mutex[cw] = "free"
    /\ cpc = "t_join" => wpc[cw] = "exited"

\* some thread can take a step that is not a spurious wake-up
SomeThreadCanStep == CallerCanStep \/ \E n \in Workers : WorkerCanStep(n)

\* C2: while a Resolve() on a group nothing else was called on has not
\* returned, some thread can take a step: Resolve() is never left waiting
\* for a wake-up that no thread will send.
C2_ResolveNeverStuck == (pure /\ cop = "Resolve") => SomeThreadCanStep

\* C3: while a WorkerGroup::Terminate() has not returned, some thread can
\* take a step: Terminate() is never left waiting in thread_->join() for a
\* worker that no thread will wake.
C3_TerminateNeverStuck == (cop = "Terminate") => SomeThreadCanStep

\* C4: when Resolve() has returned in main() with more than one worker,
\* the result array is the one NNApproxSearch(0, 1) leaves.
C4_ParallelEqualsSequential ==
    (JustResolved /\ threads > 1) =>
      point_cloud_final =
        SequentialLoop(point_cloud_sorted, buckets_boundary,
                       [i \in Indices |-> ZeroPoint], 0)

\* two workers have searched a cloud in which some point has a neighbour
\* and some point has none
C4_Witness ==
    /\ JustResolved /\ threads = 2
    /\ \E i, k \in Indices :
         point_cloud_final[i].found_nearest
           /\ ~point_cloud_final[k].found_nearest

\* C5: with w >= 1 workers, result element i is written by worker i mod w
\* only and at most once, and exactly once when Resolve() has returned.
C5_DisjointWrites ==
    threads >= 1 =>
      \A i \in Indices :
        /\ Len(wrote[i]) <= 1
        /\ \A k \in 1 .. Len(wrote[i]) : wrote[i][k] = i % threads
        /\ Resolved => Len(wrote[i]) = 1

\* two workers are both inside their jobs, each having written an element
C5_Witness ==
    /\ threads = 2
    /\ wpc[0] = "job" /\ wpc[1] = "job"
    /\ Len(wrote[0]) = 1 /\ Len(wrote[1]) = 1 /\ Len(wrote[2]) = 0

\* the number of elements of arr equal to p
CountOf(arr, p) == Cardinality({i \in Indices : arr[i] = p})

\* the placement pass of the counting sort is done
Placed == mpc \notin {"create", "count", "prefix", "place"}

\* C6: the sorted array is a permutation of the input, its bucket ids are
\* non-decreasing, and the points of one bucket are contiguous.
C6_SortedPermutation ==
    Placed =>
      /\ \A i \in Indices :
           CountOf(point_cloud_sorted, point_cloud_input[i])
             = CountOf(point_cloud_input, point_cloud_input[i])
      /\ \A i \in Indices :
           CountOf(point_cloud_input, point_cloud_sorted[i]) >= 1
      /\ \A i, k \in Indices :
           i <= k =>
             point_cloud_sorted[i].bucket_id <= point_cloud_sorted[k].bucket_id
      /\ \A i, k, m \in Indices :
           (i <= k /\ k <= m
              /\ point_cloud_sorted[i].bucket_id
                   = point_cloud_sorted[m].bucket_id)
             => point_cloud_sorted[k].bucket_id
                  = point_cloud_sorted[i].bucket_id

\* the sort has moved a point: the input was not sorted, and two points
\* share a bucket
C6_Witness ==
    /\ Placed
    /\ point_cloud_sorted /= point_cloud_input
    /\ \E i, k \in Indices :
         i /= k /\ point_cloud_sorted[i].bucket_id
                     = point_cloud_sorted[k].bucket_id

\* the boundary pass is done
Bounded == mpc \notin {"create", "count", "prefix", "place", "boundary"}

\* C7: the boundary of a bucket some point has is the first index of the
\* bucket's run; the boundary of every other bucket is -1.
C7_BoundaryIsRunStart ==
    Bounded =>
      \A b \in Buckets :
        IF \E i \in Indices : point_cloud_sorted[i].bucket_id = b
        THEN LET i == buckets_boundary[b]
             IN  /\ i \in Indices
                 /\ point_cloud_sorted[i].bucket_id = b
                 /\ (i = 0 \/ point_cloud_sorted[i - 1].bucket_id /= b)
        ELSE buckets_boundary[b] = -1

\* a bucket of several points starts after index 0
C7_Witness ==
    /\ Bounded
    /\ \E b \in Buckets :
         /\ buckets_boundary[b] > 0
         /\ Cardinality({i \in Indices : point_cloud_sorted[i].bucket_id = b})
              >= 2

\* the buckets NNApproxSearch scans for the point at index i
CandidateBuckets(i) ==
    {fib_hash_offset(point_cloud_sorted[i].position, hash_bucket_offsets[j]) :
       j \in 1 .. 8}

\* the points other than i in the runs of those buckets
Candidates(i) ==
    LET scanned == CandidateBuckets(i)
    IN  {k \in Indices \ {i} : point_cloud_sorted[k].bucket_id \in scanned}

Distance2(i, k) ==
    Dist2(point_cloud_sorted[i].position, point_cloud_sorted[k].position)

\* C8: found_nearest is set exactly when some other point lies in a
\* candidate bucket, and then nearest_index is another point, in range, at
\* minimum distance among those candidates.
C8_NearestAmongCandidates ==
    Searched =>
      \A i \in Indices :
        LET r == point_cloud_final[i]
            others == Candidates(i)
        IN  /\ r.found_nearest <=> others /= {}
            /\ r.found_nearest =>
                 /\ r.nearest_index /= i
                 /\ r.nearest_index \in others
                 /\ \A k \in others :
                      Distance2(i, r.nearest_index) <= Distance2(i, k)

\* one point has two candidates at different distances, and another point
\* has a neighbour in the cloud but none in its candidate buckets
C8_Witness ==
    /\ Searched
    /\ \E i \in Indices :
         LET others == Candidates(i)
         IN  \E k, m \in others : Distance2(i, k) < Distance2(i, m)
    /\ \E i \in Indices :
         ~point_cloud_final[i].found_nearest /\ Candidates(i) = {}

\* the points other than i in the grid cell of i
CellMates(i) ==
    {k \in Indices \ {i} :
       Cell(point_cloud_sorted[k].position)
         = Cell(point_cloud_sorted[i].position)}

\* C9: a point that shares its cell is given a neighbour, no farther than
\* the closest other point of its cell.
C9_CellMateFound ==
    Searched =>
      \A i \in Indices :
        CellMates(i) /= {} =>
          /\ point_cloud_final[i].found_nearest
          /\ \A k \in CellMates(i) :
               Distance2(i, point_cloud_final[i].nearest_index)
                 <= Distance2(i, k)

\* two pairs of cell mates in different cells, each pair reported as
\* mutual nearest neighbours
C9_Witness ==
    /\ Searched
    /\ \E i, k, m, q \in Indices :
         /\ Cardinality({i, k, m, q}) = 4
         /\ CellMates(i) = {k} /\ CellMates(m) = {q}
         /\ point_cloud_final[i].nearest_index = k
         /\ point_cloud_final[k].nearest_index = i
         /\ point_cloud_final[m].nearest_index = q
         /\ point_cloud_final[q].nearest_index = m

\* C10: once Terminate() has returned for a worker its job count is
\* final; and once running is false a worker that has not passed the test
\* of line 78 never passes it.
C10_NoJobAfterTerminate ==
    [][\A n \in Workers :
         /\ stopped[n] => jobs'[n] = jobs[n]
         /\ (~running[n] /\ wpc[n] \notin {"if_e", "job"})
              => (jobs'[n] = jobs[n] /\ wpc'[n] \notin {"if_e", "job"})]_vars

\* a worker that never ran its job has left its loop, its Terminate() has
\* returned, and a later Notify() has set executing
C10_Witness ==
    \E n \in Workers :
      /\ stopped[n] /\ wpc[n] = "exited" /\ jobs[n] = 0
      /\ executing[n] /\ cop \in {"Notify", "Resolve"}

\* C11: when the search phase of main() has returned, in either build and
\* for every number of workers including 0, every element of the result
\* array has been written by the search.
C11_ResultFullyPopulated ==
    Searched => \A i \in Indices : Len(wrote[i]) >= 1

\* C12: in a history of Resolve() calls only, in which nothing writes the
\* sorted array or the boundary table, no step taken after the first
\* Resolve() has returned changes the result array: every write of a later
\* round rewrites the value the first round left, so the result array after
\* the second Resolve() is the one after the first.
C12_ResolveIdempotent ==
    [][(pure /\ resolves >= 1) =>
         /\ point_cloud_final' = point_cloud_final
         /\ point_cloud_sorted' = point_cloud_sorted
         /\ buckets_boundary' = buckets_boundary]_vars

\* a second Resolve() has returned after every element was written twice,
\* the result array holding a neighbour for some point
C12_Witness ==
    /\ pure /\ cpc = "idle" /\ resolves = 2
    /\ \A i \in Indices : Len(wrote[i]) = 2
    /\ \E i \in Indices :
         /\ point_cloud_final[i].found_nearest
         /\ point_cloud_final[i].nearest_index /= i

\* the cells hash(pos, offset) hashes over the 8 fixed offsets
OffsetCells(pos) ==
    {OffsetCell(pos, hash_bucket_offsets[j]) : j \in 1 .. 8}

\* the two cell coordinates the claim names on axis a: the own cell c and
\* c - 1 when the fractional part is below one half, c and c + 1 otherwise
NearestAxisCells(pos, a) ==
    LET c == Cell(pos)[a]
        f == Scaled(pos)[a] - c * SubCell
    IN  IF 2 * f < SubCell THEN {c - 1, c} ELSE {c, c + 1}

\* C13: for every point of the cloud the 8 offsets reach 8 distinct cells,
\* the 2x2x2 block of the per-axis coordinates above; the block contains
\* the point's own cell and every cell of it is at most one cell away from
\* the own cell on every axis.
C13_OffsetsReachNearestBlock ==
    \A i \in Indices :
      LET pos == point_cloud_input[i].position
          cells == OffsetCells(pos)
      IN  /\ Cardinality(cells) = 8
          /\ cells = {<<x, y, z>> : x \in NearestAxisCells(pos, 1),
                                    y \in NearestAxisCells(pos, 2),
                                    z \in NearestAxisCells(pos, 3)}
          /\ Cell(pos) \in cells
          /\ \A d \in cells : \A a \in 1 .. 3 :
               d[a] - Cell(pos)[a] \in {-1, 0, 1}

\* the search has run on a cloud with a point in the lower half of its cell
\* on one axis and in the upper half on another
C13_Witness ==
    /\ Searched
    /\ \E i \in Indices :
         LET pos == point_cloud_input[i].position
         IN  /\ NearestAxisCells(pos, 1) = {Cell(pos)[1], Cell(pos)[1] + 1}
             /\ NearestAxisCells(pos, 3) = {Cell(pos)[3] - 1, Cell(pos)[3]}

\* raw 32-bit hashes at the ends of the range and around the top bit
EdgeHashes ==
    {<<0, 0>>, <<0, 1>>, <<Half - 1, Half - 1>>, <<Half \div 2, 0>>,
     <<Half \div 2 - 1, Half - 1>>, fib_multiplier}

\* the raw hashes the program computes for a position: hash(pos) and the
\* 8 hash(pos, offset)
PointHashes(pos) ==
    {hash(pos)} \cup {hash_offset(pos, hash_bucket_offsets[j]) : j \in 1 .. 8}

\* C14: NUM_BUCKETS being a power of two, fib_hash_to_index maps every raw
\* hash to an index below NUM_BUCKETS, and the bucket id a point was given
\* at creation by fib_hash(pos) is the index fib_hash(pos, offset) gives
\* for the offset that reaches the point's own cell; stated of the cloud
\* as created and of the sorted array when the search has returned.
C14_FibIndexInRange ==
    mpc \in {"count", "reduce"} =>
      /\ \A h \in EdgeHashes : fib_hash_to_index(h) \in Buckets
      /\ \A i \in Indices :
           LET p == IF mpc = "count" THEN point_cloud_input[i]
                    ELSE point_cloud_sorted[i]
           IN  /\ \A h \in PointHashes(p.position) :
                    fib_hash_to_index(h) \in Buckets
               /\ p.bucket_id \in Buckets
               /\ \E j \in 1 .. 8 :
                    /\ OffsetCell(p.position, hash_bucket_offsets[j])
                         = Cell(p.position)
                    /\ fib_hash_offset(p.position, hash_bucket_offsets[j])
                         = p.bucket_id

\* the search has run on a cloud whose points fall in at least two buckets,
\* one of them with a raw hash that has its top bit set
C14_Witness ==
    /\ mpc = "reduce"
    /\ \E i, k \in Indices :
         /\ point_cloud_input[i].bucket_id /= point_cloud_input[k].bucket_id
         /\ hash(point_cloud_input[i].position)[1] >= Half \div 2

\* C15: a run started with a worker count that gives a zero partition
\* step (threads = 0, the step NNApproxSearch(n, threads) would be given)
\* is rejected at setup: no worker is created and no element of the sorted
\* array or of the result array is ever written.
C15_ZeroStepRejected ==
    threads = 0 =>
      /\ created = 0
      /\ point_cloud_sorted = [i \in Indices |-> ZeroPoint]
      /\ point_cloud_final = [i \in Indices |-> ZeroPoint]

\* main() has not called Resolve() yet: workers are being created, the sort
\* is running, or the sort is done and line 229 is next
BeforeResolve ==
    mpc \in {"create", "count", "prefix", "place", "boundary", "resolve"}

\* C16: until main() calls Resolve() every constructed worker is in the
\* wait of its loop (taking the mutex, evaluating the predicate, or
\* blocked), has never entered its job, and nothing has been written to
\* the result array; so no job reads the sorted array or the boundary
\* table while the sort writes them.
C16_IdleUntilResolve ==
    BeforeResolve =>
      /\ \A n \in AllWorkers :
           /\ jobs[n] = 0
           /\ wpc[n] \in {"unborn", "lock", "wait_r", "block", "waiting"}
      /\ \A i \in Indices : wrote[i] = <<>>

\* the placement pass is about to write the sorted array while one worker
\* is blocked in its wait and another, woken spuriously or just started,
\* is evaluating the wait predicate
C16_Witness ==
    /\ mpc = "place" /\ created = 2
    /\ wpc[0] = "waiting" /\ wpc[1] = "wait_r"

\* the indices of the sorted array NNApproxSearch reads for the point at i
ScanReads(i) == SearchScan(point_cloud_sorted, buckets_boundary, i).reads

\* C17: when the search has returned, every boundary entry other than -1
\* is an index of the sorted array; every index the scan for a point read
\* is an index of the sorted array, and it holds a point of a candidate
\* bucket or directly follows one (the one element read past a run); and
\* the neighbour reported is a point of a candidate bucket.
C17_ScanStaysInRange ==
    mpc = "reduce" =>
      /\ \A b \in Buckets :
           buckets_boundary[b] /= -1 => buckets_boundary[b] \in Indices
      /\ \A i \in Indices :
           LET reads == ScanReads(i)
               scanned == CandidateBuckets(i)
               r == point_cloud_final[i]
           IN  /\ reads \subseteq Indices
               /\ \A k \in reads :
                    \/ point_cloud_sorted[k].bucket_id \in scanned
                    \/ /\ k > 0
                       /\ point_cloud_sorted[k - 1].bucket_id \in scanned
               /\ r.found_nearest =>
                    point_cloud_sorted[r.nearest_index].bucket_id \in scanned

\* the search has scanned a run that ends at the last element of the
\* array, and has read one element past a run that ends earlier
C17_Witness ==
    /\ mpc = "reduce"
    /\ \E i \in Indices :
         /\ point_cloud_sorted[NUM_POINTS - 1].bucket_id \in CandidateBuckets(i)
         /\ NUM_POINTS - 1 \in ScanReads(i)
    /\ \E i \in Indices : \E k \in ScanReads(i) :
         point_cloud_sorted[k].bucket_id \notin CandidateBuckets(i)

\* a search round is in progress: NNApproxSearch is running on the main
\* thread, or Resolve() has been called and has not returned
Searching == mpc \in {"search", "resolving"}

\* C18: no step of a search round changes the sorted array, the counts
\* table or the boundary table, and a step that writes result element i
\* gives it the position and the bucket id of sorted element i.
C18_SearchFrame ==
    [][Searching =>
         /\ point_cloud_sorted' = point_cloud_sorted
         /\ buckets_hash' = buckets_hash
         /\ buckets_boundary' = buckets_boundary
         /\ \A i \in Indices :
              wrote'[i] /= wrote[i] =>
                /\ point_cloud_final'[i].position
                     = point_cloud_sorted[i].position
                /\ point_cloud_final'[i].bucket_id
                     = point_cloud_sorted[i].bucket_id]_vars

\* the round is over: every result element carries a point of the cloud
\* with its bucket id, some with a neighbour, and the sort had moved points
C18_Witness ==
    /\ mpc = "reduce"
    /\ point_cloud_sorted /= point_cloud_input
    /\ \A i \in Indices :
         /\ Len(wrote[i]) = 1
         /\ point_cloud_final[i].bucket_id
              = fib_hash(point_cloud_final[i].position)
    /\ \E i \in Indices : point_cloud_final[i].found_nearest

\* C19: once the placement pass is done, for every bucket some point has,
\* buckets_hash[b] is the first index of the bucket's run in the sorted
\* array; and once the boundary pass is done it equals buckets_boundary[b].
C19_HashIsRunStart ==
    Placed =>
      \A b \in Buckets :
        (\E i \in Indices : point_cloud_sorted[i].bucket_id = b) =>
          LET s == buckets_hash[b]
          IN  /\ s \in Indices
              /\ point_cloud_sorted[s].bucket_id = b
              /\ (s = 0 \/ point_cloud_sorted[s - 1].bucket_id /= b)
              /\ Bounded => s = buckets_boundary[b]

\* both passes are done on a cloud with a bucket of several points whose
\* run starts after index 0, and an empty bucket, where the two tables differ
C19_Witness ==
    /\ Bounded
    /\ \E b \in Buckets :
         /\ buckets_hash[b] > 0
         /\ buckets_hash[b] = buckets_boundary[b]
         /\ Cardinality({i \in Indices : point_cloud_sorted[i].bucket_id = b})
              >= 2
    /\ \E b \in Buckets :
         buckets_boundary[b] = -1 /\ buckets_hash[b] /= buckets_boundary[b]

\* the methods that call Worker::Terminate: WorkerGroup::Terminate,
\* ~WorkerGroup, and ~Worker for each worker
Terminating == cop \in {"Terminate", "Destroy", "DestroyWorkers"}

\* C20: a worker's thread is joined at most once, and exactly once when a
\* Terminate() of that worker has returned; from then on no step joins it
\* again or changes running or the position of its thread, and no step of
\* a later Terminate() or destruction changes executing either.
C20_TerminateIdempotent ==
    [][\A n \in Workers :
         /\ joins'[n] <= 1
         /\ stopped'[n] => (joins'[n] = 1 /\ ~running'[n])
         /\ stopped[n] =>
              /\ joins'[n] = joins[n]
              /\ running'[n] = running[n]
              /\ wpc'[n] = wpc[n] /\ wpc[n] = "exited"
              /\ Terminating => executing'[n] = executing[n]]_vars

\* a group of two workers has been terminated, terminated again, and
\* destroyed; each thread was joined once and never ran its job
C20_Witness ==
    /\ threads = 2 /\ ops = 3 /\ cpc = "gone"
    /\ \A n \in Workers :
         stopped[n] /\ joins[n] = 1 /\ jobs[n] = 0 /\ ~executing[n]

=============================================================================
